---- MODULE Spec2Model ----
(***************************************************************************)
(* glox: scanner -> Pratt compiler -> bytecode chunk -> stack VM.          *)
(*                                                                         *)
(* A source text is a sequence of bytes; each byte is a one-character      *)
(* string, except the two bytes of the UTF-8 encoding of U+00E9, which are *)
(* written "0xC3" and "0xA9".  Runes are strings as well.                  *)
(* float64 values are modelled as exact signed rationals with signed zero, *)
(* the two infinities and NaN; rounding is not modelled.                   *)
(***************************************************************************)
EXTENDS Integers, Sequences, FiniteSets, TLC

VARIABLES source, pc, scanner, tokens, current, previous, chunk, err,
          ip, stack, out

vars == <<source, pc, scanner, tokens, current, previous, chunk, err,
          ip, stack, out>>

(***************************************************************************)
(* Bounds of the model.                                                    *)
(***************************************************************************)
MaxSrcLen == 4

MaxCalls == 6

MaxOperands == 3

MaxUnary == 1

ExtraLits == 2

(***************************************************************************)
(* Runes and bytes (unicode/utf8).                                         *)
(***************************************************************************)
LeadByte == "0xC3"

ContByte == "0xA9"

EAcute == "U+00E9"

RuneError == "U+FFFD"

NoRune == "rune(-1)"

Digits == {"0", "1", "2", "3", "4", "5", "6", "7", "8", "9"}

Letters == {"a", "b", "c", "d", "e", "f", "g", "h", "i", "j", "k", "l", "m",
            "n", "o", "p", "q", "r", "s", "t", "u", "v", "w", "x", "y", "z"}

\* utf8.DecodeRuneInString(src[i:]) for a byte offset 0 <= i < Len(src).
DecodeRune(src, i) ==
    LET b == src[i + 1] IN
    IF b = LeadByte
    THEN IF i + 2 <= Len(src) /\ src[i + 2] = ContByte
         THEN [r |-> EAcute, size |-> 2]
         ELSE [r |-> RuneError, size |-> 1]
    ELSE IF b = ContByte
         THEN [r |-> RuneError, size |-> 1]
         ELSE [r |-> b, size |-> 1]

\* utf8.RuneCountInString: every byte is a rune of its own, except that a
\* lead byte and the continuation byte after it are one rune.
RuneCountInString(src) ==
    Len(src) - Cardinality({i \in 1..(Len(src) - 1) :
                               src[i] = LeadByte /\ src[i + 1] = ContByte})

(***************************************************************************)
(* Scanner (src/scanner.go).                                               *)
(***************************************************************************)
Token(typ, line, data) == [typ |-> typ, line |-> line, data |-> data]

\* The zero Token of Go: TokenError is the iota 0.
ZeroToken == Token("TokenError", 0, <<>>)

\* newScanner: start, current and line are 0.
newScanner == [start |-> 0, current |-> 0, line |-> 0]

runeAt(src, index) ==
    IF index >= RuneCountInString(src)
    THEN [r |-> NoRune, size |-> 0]
    ELSE DecodeRune(src, index)

currentRune(src, s) == runeAt(src, s.current)

isEOF(src, s) == s.current >= Len(src)

isDigit(r) == r \in Digits

isAlpha(r) == r \in Letters \cup {EAcute} \/ r = "_"

makeToken(src, s, typ) ==
    Token(typ, s.line + 1, SubSeq(src, s.start + 1, s.current))

\* A loop of the scanner either ends in a scanner state or never ends.
Ends(s) == [s |-> s, hang |-> FALSE]

Hangs(s) == [s |-> s, hang |-> TRUE]

RECURSIVE skipUntilNewLine(_, _)
skipUntilNewLine(src, s) ==
    LET d == currentRune(src, s) IN
    IF d.r # "\n" /\ ~isEOF(src, s)
    THEN IF d.size = 0
         THEN Hangs(s)
         ELSE skipUntilNewLine(src, [s EXCEPT !.current = @ + d.size])
    ELSE Ends(s)

RECURSIVE skipWhitespace(_, _)
skipWhitespace(src, s) ==
    LET d == currentRune(src, s) IN
    IF d.r \in {" ", "\r", "\t"}
    THEN skipWhitespace(src, [s EXCEPT !.current = @ + d.size])
    ELSE IF d.r = "\n"
    THEN skipWhitespace(src, [s EXCEPT !.line = @ + 1,
                                       !.current = @ + d.size])
    ELSE IF d.r = "/" /\ runeAt(src, s.current + d.size).r = "/"
    THEN skipUntilNewLine(src, s)
    ELSE Ends(s)

\* match: [s, ok]
match(src, s, expected) ==
    LET d == currentRune(src, s) IN
    IF isEOF(src, s) \/ d.r # expected
    THEN [s |-> s, ok |-> FALSE]
    ELSE [s |-> [s EXCEPT !.current = @ + d.size], ok |-> TRUE]

RECURSIVE stringLoop(_, _)
stringLoop(src, s) ==
    LET d == currentRune(src, s) IN
    IF d.r = "\"" \/ isEOF(src, s)
    THEN Ends(s)
    ELSE IF d.size = 0
         THEN Hangs(s)
         ELSE stringLoop(src, [s EXCEPT !.current = @ + d.size])

oneChar(src, s, typ) ==
    [s |-> s, tok |-> makeToken(src, s, typ), hang |-> FALSE]

\* scanner.string after its loop: the unterminated string, or the closing
\* quote.
stringEnd(src, l) ==
    IF l.hang THEN [s |-> l.s, tok |-> ZeroToken, hang |-> TRUE]
    ELSE IF isEOF(src, l.s) THEN oneChar(src, l.s, "TokenError")
    ELSE oneChar(src,
                 [l.s EXCEPT !.current = @ + currentRune(src, l.s).size],
                 "TokenString")

\* scanner.string: [s, tok, hang]
scanString(src, s) == stringEnd(src, stringLoop(src, s))

RECURSIVE digitLoop(_, _)
digitLoop(src, s) ==
    LET d == currentRune(src, s) IN
    IF isDigit(d.r)
    THEN digitLoop(src, [s EXCEPT !.current = @ + d.size])
    ELSE s

\* scanner.number after the digits before the ".": the fraction.
fraction(src, s1, d) ==
    IF d.r = "."
    THEN digitLoop(src, [s1 EXCEPT !.current = @ + d.size])
    ELSE s1

numberAfterDigits(src, s1) == fraction(src, s1, currentRune(src, s1))

\* scanner.number
scanNumber(src, s) ==
    oneChar(src, numberAfterDigits(src, digitLoop(src, s)), "TokenNumber")

RECURSIVE identLoop(_, _)
identLoop(src, s) ==
    LET d == currentRune(src, s) IN
    IF isAlpha(d.r) \/ isDigit(d.r)
    THEN identLoop(src, [s EXCEPT !.current = @ + d.size])
    ELSE s

\* The switch of scanner.identifier on token.data.
keywordType(data) ==
    CASE data = <<"a", "n", "d">> -> "TokenAnd"
      [] data = <<"c", "l", "a", "s", "s">> -> "TokenClass"
      [] data = <<"e", "l", "s", "e">> -> "TokenElse"
      [] data = <<"f", "a", "l", "s", "e">> -> "TokenFalse"
      [] data = <<"f", "o", "r">> -> "TokenFor"
      [] data = <<"f", "u", "n">> -> "TokenFun"
      [] data = <<"i", "f">> -> "TokenIf"
      [] data = <<"n", "i", "l">> -> "TokenNil"
      [] data = <<"o", "r">> -> "TokenOr"
      [] data = <<"p", "r", "i", "n", "t">> -> "TokenPrint"
      [] data = <<"r", "e", "t", "u", "r", "n">> -> "TokenReturn"
      [] data = <<"s", "u", "p", "e", "r">> -> "TokenSuper"
      [] data = <<"t", "r", "u", "e">> -> "TokenTrue"
      [] data = <<"v", "a", "r">> -> "TokenVar"
      [] data = <<"w", "h", "i", "l", "e">> -> "TokenWhile"
      [] OTHER -> "TokenIdentifier"

identifierToken(s1, t) ==
    [s |-> s1, tok |-> [t EXCEPT !.typ = keywordType(t.data)],
     hang |-> FALSE]

identifierAfterLoop(src, s1) ==
    identifierToken(s1, makeToken(src, s1, "TokenIdentifier"))

\* scanner.identifier
scanIdentifier(src, s) == identifierAfterLoop(src, identLoop(src, s))

matched(src, m, with, without) ==
    oneChar(src, m.s, IF m.ok THEN with ELSE without)

\* The two-character operators of nextToken: match('=') picks the kind.
twoChar(src, s, with, without) ==
    matched(src, match(src, s, "="), with, without)

\* The classification of nextToken: r is the rune read, s the scanner past
\* it.
classify(src, s, r) ==
    IF isDigit(r) THEN scanNumber(src, s)
    ELSE IF isAlpha(r) THEN scanIdentifier(src, s)
    ELSE CASE r = "(" -> oneChar(src, s, "TokenLeftParen")
           [] r = ")" -> oneChar(src, s, "TokenRightParen")
           [] r = "{" -> oneChar(src, s, "TokenLeftBrace")
           [] r = "}" -> oneChar(src, s, "TokenRightBrace")
           [] r = "," -> oneChar(src, s, "TokenComma")
           [] r = "." -> oneChar(src, s, "TokenDot")
           [] r = "+" -> oneChar(src, s, "TokenPlus")
           [] r = "-" -> oneChar(src, s, "TokenMinus")
           [] r = "*" -> oneChar(src, s, "TokenStar")
           [] r = "/" -> oneChar(src, s, "TokenSlash")
           [] r = "=" -> twoChar(src, s, "TokenEqualEqual", "TokenEqual")
           [] r = "!" -> twoChar(src, s, "TokenBangEqual", "TokenBang")
           [] r = "<" -> twoChar(src, s, "TokenLessEqual", "TokenLess")
           [] r = ">" -> twoChar(src, s, "TokenGreaterEqual", "TokenGreater")
           [] r = ";" -> oneChar(src, s, "TokenSemicolon")
           [] r = "\"" -> scanString(src, s)
           [] OTHER -> oneChar(src, s, "TokenError")

readRune(src, s1, d) ==
    classify(src, [s1 EXCEPT !.current = @ + d.size], d.r)

\* nextToken counting the end of the input as the end of a line.
scanTokenEndsLine(src, s1) ==
    IF isEOF(src, s1)
    THEN oneChar(src, [s1 EXCEPT !.line = @ + 1], "TokenEOF")
    ELSE readRune(src, s1, currentRune(src, s1))

\* nextToken from s.start = s.current on.
scanToken(src, s1) ==
    IF isEOF(src, s1) THEN oneChar(src, s1, "TokenEOF")
    ELSE readRune(src, s1, currentRune(src, s1))

afterSkip(src, w) ==
    IF w.hang THEN [s |-> w.s, tok |-> ZeroToken, hang |-> TRUE]
    ELSE scanToken(src, [w.s EXCEPT !.start = w.s.current])

\* scanner.nextToken: [s, tok, hang]; hang means the call never returns.
nextToken(src, s0) == afterSkip(src, skipWhitespace(src, s0))

(***************************************************************************)
(* float64: kind "fin" is the signed rational s * n / d in lowest terms    *)
(* (n = 0 is a signed zero), "inf" a signed infinity, "nan" NaN.           *)
(***************************************************************************)
RECURSIVE Gcd(_, _)
Gcd(a, b) == IF b = 0 THEN a ELSE Gcd(b, a % b)

Fin(s, n, d) ==
    LET g == Gcd(n, d) IN
    IF n = 0 THEN [k |-> "fin", s |-> s, n |-> 0, d |-> 1]
    ELSE [k |-> "fin", s |-> s, n |-> n \div g, d |-> d \div g]

Inf(s) == [k |-> "inf", s |-> s, n |-> 0, d |-> 1]

NaN == [k |-> "nan", s |-> 1, n |-> 0, d |-> 1]

IsZero(x) == x.k = "fin" /\ x.n = 0

Abs(i) == IF i < 0 THEN -i ELSE i

fNeg(x) == IF x.k = "nan" THEN NaN ELSE [x EXCEPT !.s = -x.s]

fAdd(x, y) ==
    IF x.k = "nan" \/ y.k = "nan" THEN NaN
    ELSE IF x.k = "inf" /\ y.k = "inf"
    THEN IF x.s = y.s THEN x ELSE NaN
    ELSE IF x.k = "inf" THEN x
    ELSE IF y.k = "inf" THEN y
    ELSE LET a == x.s * x.n * y.d + y.s * y.n * x.d IN
         IF a = 0
         THEN Fin(IF IsZero(x) /\ IsZero(y) /\ x.s = -1 /\ y.s = -1
                  THEN -1 ELSE 1, 0, 1)
         ELSE Fin(IF a < 0 THEN -1 ELSE 1, Abs(a), x.d * y.d)

fSub(x, y) == fAdd(x, fNeg(y))

fMul(x, y) ==
    IF x.k = "nan" \/ y.k = "nan" THEN NaN
    ELSE IF (x.k = "inf" /\ IsZero(y)) \/ (IsZero(x) /\ y.k = "inf") THEN NaN
    ELSE IF x.k = "inf" \/ y.k = "inf" THEN Inf(x.s * y.s)
    ELSE Fin(x.s * y.s, x.n * y.n, x.d * y.d)

fDiv(x, y) ==
    IF x.k = "nan" \/ y.k = "nan" THEN NaN
    ELSE IF (x.k = "inf" /\ y.k = "inf") \/ (IsZero(x) /\ IsZero(y)) THEN NaN
    ELSE IF x.k = "inf" THEN Inf(x.s * y.s)
    ELSE IF y.k = "inf" THEN Fin(x.s * y.s, 0, 1)
    ELSE IF IsZero(y) THEN Inf(x.s * y.s)
    ELSE Fin(x.s * y.s, x.n * y.d, x.d * y.n)

fEq(x, y) ==
    /\ x.k # "nan"
    /\ y.k # "nan"
    /\ (IsZero(x) /\ IsZero(y)) \/ x = y

fLess(x, y) ==
    IF x.k = "nan" \/ y.k = "nan" THEN FALSE
    ELSE IF x.k = "inf" THEN x.s = -1 /\ ~(y.k = "inf" /\ y.s = -1)
    ELSE IF y.k = "inf" THEN y.s = 1
    ELSE x.s * x.n * y.d < y.s * y.n * x.d

fGreater(x, y) == fLess(y, x)

(***************************************************************************)
(* Values (src/value.go).  data is "nil" (no payload), a BOOLEAN or a      *)
(* float64; a type assertion on the wrong payload panics.                  *)
(***************************************************************************)
nilValue == [typ |-> "ValueNil", b |-> FALSE, f |-> NaN, has |-> "nil"]

boolValue(b) == [typ |-> "ValueBool", b |-> b, f |-> NaN, has |-> "bool"]

numberValue(f) == [typ |-> "ValueNumber", b |-> FALSE, f |-> f,
                   has |-> "float64"]

\* The result of an operator: a value, a returned error, or a panic.
Ok(v) == [v |-> v, err |-> "", panic |-> FALSE]

Fail(msg) == [v |-> nilValue, err |-> msg, panic |-> FALSE]

Panic == [v |-> nilValue, err |-> "", panic |-> TRUE]

\* asBool taking the number 0 for false.
asBoolZeroFalse(v) ==
    CASE v.typ = "ValueBool" -> v.b
      [] v.typ = "ValueNil" -> v.has # "nil"
      [] OTHER -> ~IsZero(v.f)

\* Value.asBool
asBool(v) ==
    CASE v.typ = "ValueBool" -> v.b
      [] v.typ = "ValueNil" -> v.has # "nil"
      [] OTHER -> TRUE

\* Value.asNumber is v.data.(float64): it panics unless data is a float64.
asNumberPanics(v) == v.has # "float64"

\* negateValue reading every payload as a number (0 when it is none).
negateValueCoerces(v) ==
    Ok(numberValue(fNeg(IF asNumberPanics(v) THEN Fin(1, 0, 1) ELSE v.f)))

negateValue(v) ==
    IF asNumberPanics(v) THEN Panic ELSE Ok(numberValue(fNeg(v.f)))

notValue(v) == Ok(boolValue(~asBool(v)))

BothNumbers(v, w) == v.typ = "ValueNumber" /\ w.typ = "ValueNumber"

\* addValues checking the type of its left operand only.
addValuesLeftOnly(v, w) ==
    IF v.typ = "ValueNumber"
    THEN IF asNumberPanics(w) THEN Panic
         ELSE Ok(numberValue(fAdd(v.f, w.f)))
    ELSE Fail("type mismatch")

addValues(v, w) ==
    IF BothNumbers(v, w) THEN Ok(numberValue(fAdd(v.f, w.f)))
    ELSE Fail("type mismatch")

subtractValues(v, w) ==
    IF BothNumbers(v, w) THEN Ok(numberValue(fSub(v.f, w.f)))
    ELSE Fail("type mismatch")

multiplyValues(v, w) ==
    IF BothNumbers(v, w) THEN Ok(numberValue(fMul(v.f, w.f)))
    ELSE Fail("type mismatch")

divideValues(v, w) ==
    IF BothNumbers(v, w) THEN Ok(numberValue(fDiv(v.f, w.f)))
    ELSE Fail("type mismatch")

\* valuesEqual comparing the truthiness of operands of different types.
valuesEqualByTruth(v, w) ==
    Ok(boolValue(
        IF v.typ # w.typ THEN asBool(v) = asBool(w)
        ELSE CASE v.typ = "ValueNil" -> TRUE
               [] v.typ = "ValueBool" -> asBool(v) = asBool(w)
               [] v.typ = "ValueNumber" -> fEq(v.f, w.f)
               [] OTHER -> FALSE))

valuesEqual(v, w) ==
    Ok(boolValue(
        /\ v.typ = w.typ
        /\ CASE v.typ = "ValueNil" -> TRUE
             [] v.typ = "ValueBool" -> asBool(v) = asBool(w)
             [] v.typ = "ValueNumber" -> fEq(v.f, w.f)
             [] OTHER -> FALSE))

valueGreater(v, w) ==
    IF BothNumbers(v, w) THEN Ok(boolValue(fGreater(v.f, w.f)))
    ELSE Fail("type mismatch")

valueLess(v, w) ==
    IF BothNumbers(v, w) THEN Ok(boolValue(fLess(v.f, w.f)))
    ELSE Fail("type mismatch")

(***************************************************************************)
(* Errors: the format string of fmt.Errorf and its arguments.              *)
(***************************************************************************)
Err(msg, line, a, b, data) ==
    [msg |-> msg, line |-> line, a |-> a, b |-> b, data |-> data]

NoErr == Err("", 0, "", "", <<>>)

(***************************************************************************)
(* Chunk (opcodes, Chunk.addByte, addOp, addVal).                          *)
(***************************************************************************)
OpConstant == 0

OpNil == 1

OpFalse == 2

OpTrue == 3

OpNegate == 4

OpNot == 5

OpAdd == 6

OpSubtract == 7

OpMultiply == 8

OpDivide == 9

OpEqual == 10

OpGreater == 11

OpLess == 12

OpReturn == 13

\* &Chunk{}; isNil marks the nil *Chunk that compile returns with an error.
EmptyChunk == [code |-> <<>>, vals |-> <<>>, isNil |-> FALSE]

NilChunk == [code |-> <<>>, vals |-> <<>>, isNil |-> TRUE]

addByte(ch, b) == [ch EXCEPT !.code = Append(@, b)]

addOp(ch, op) == addByte(ch, op)

\* addVal returning the length after the append.
addValLength(ch, val) ==
    [chunk |-> [ch EXCEPT !.vals = Append(@, val)],
     index |-> Len(ch.vals) + 1]

\* addVal: the chunk with the value appended, and the index it returns.
addVal(ch, val) ==
    [chunk |-> [ch EXCEPT !.vals = Append(@, val)], index |-> Len(ch.vals)]

\* byte(index)
ToByte(i) == i % 256

(***************************************************************************)
(* Compiler: precedence levels, the rule table, the handlers.              *)
(***************************************************************************)
MaxConstIndex == 255

precNone == 0

precAssignment == 1

precOr == 2

precAnd == 3

precEquality == 4

precComparison == 5

precTerm == 6

precFactor == 7

precUnary == 8

precCall == 9

precPrimary == 10

Rule(prefix, infix, precedence) ==
    [prefix |-> prefix, infix |-> infix, precedence |-> precedence]

\* The rule table with the levels of Term and Factor exchanged.
parseRulesSwapped ==
    [typ \in {"TokenEOF", "TokenNil", "TokenFalse", "TokenTrue",
              "TokenLeftParen", "TokenRightParen", "TokenPlus", "TokenMinus",
              "TokenStar", "TokenSlash", "TokenEqualEqual", "TokenGreater",
              "TokenLess", "TokenBang", "TokenNumber"} |->
        CASE typ = "TokenEOF" -> Rule("nil", "nil", precNone)
          [] typ \in {"TokenNil", "TokenFalse", "TokenTrue"} ->
                Rule("literal", "nil", precNone)
          [] typ = "TokenLeftParen" -> Rule("grouping", "nil", precNone)
          [] typ = "TokenRightParen" -> Rule("nil", "nil", precNone)
          [] typ \in {"TokenPlus", "TokenMinus"} ->
                Rule("unary", "binary", precFactor)
          [] typ \in {"TokenStar", "TokenSlash"} ->
                Rule("unary", "binary", precTerm)
          [] typ = "TokenEqualEqual" -> Rule("nil", "binary", precEquality)
          [] typ \in {"TokenGreater", "TokenLess"} ->
                Rule("nil", "binary", precComparison)
          [] typ = "TokenBang" -> Rule("unary", "nil", precNone)
          [] typ = "TokenNumber" -> Rule("number", "nil", precNone)]

\* newCompiler: c.parseRules; "nil" is the nil parseFn.
parseRules ==
    [typ \in {"TokenEOF", "TokenNil", "TokenFalse", "TokenTrue",
              "TokenLeftParen", "TokenRightParen", "TokenPlus", "TokenMinus",
              "TokenStar", "TokenSlash", "TokenEqualEqual", "TokenGreater",
              "TokenLess", "TokenBang", "TokenNumber"} |->
        CASE typ = "TokenEOF" -> Rule("nil", "nil", precNone)
          [] typ \in {"TokenNil", "TokenFalse", "TokenTrue"} ->
                Rule("literal", "nil", precNone)
          [] typ = "TokenLeftParen" -> Rule("grouping", "nil", precNone)
          [] typ = "TokenRightParen" -> Rule("nil", "nil", precNone)
          [] typ \in {"TokenPlus", "TokenMinus"} ->
                Rule("unary", "binary", precTerm)
          [] typ \in {"TokenStar", "TokenSlash"} ->
                Rule("unary", "binary", precFactor)
          [] typ = "TokenEqualEqual" -> Rule("nil", "binary", precEquality)
          [] typ \in {"TokenGreater", "TokenLess"} ->
                Rule("nil", "binary", precComparison)
          [] typ = "TokenBang" -> Rule("unary", "nil", precNone)
          [] typ = "TokenNumber" -> Rule("number", "nil", precNone)]

literalOps ==
    [typ \in {"TokenNil", "TokenFalse", "TokenTrue"} |->
        CASE typ = "TokenNil" -> OpNil
          [] typ = "TokenFalse" -> OpFalse
          [] typ = "TokenTrue" -> OpTrue]

unaryOps ==
    [typ \in {"TokenMinus", "TokenBang"} |->
        IF typ = "TokenMinus" THEN OpNegate ELSE OpNot]

binaryOps ==
    [typ \in {"TokenPlus", "TokenMinus", "TokenStar", "TokenSlash",
              "TokenEqualEqual", "TokenGreater", "TokenLess"} |->
        CASE typ = "TokenPlus" -> OpAdd
          [] typ = "TokenMinus" -> OpSubtract
          [] typ = "TokenStar" -> OpMultiply
          [] typ = "TokenSlash" -> OpDivide
          [] typ = "TokenEqualEqual" -> OpEqual
          [] typ = "TokenGreater" -> OpGreater
          [] typ = "TokenLess" -> OpLess]

\* The compiler's fields and the chunk it writes; err is the error a
\* handler returned, hang a scanner call that never returns, panic a call
\* of a nil parseFn.
Compiler(s, cur, prev, ch) ==
    [scanner |-> s, current |-> cur, previous |-> prev, chunk |-> ch,
     err |-> NoErr, hang |-> FALSE, panic |-> FALSE]

Failed(c) == c.err # NoErr \/ c.hang \/ c.panic

WithErr(c, e) == [c EXCEPT !.err = e]

advanced(c, r) ==
    IF r.hang THEN [c EXCEPT !.hang = TRUE]
    ELSE [c EXCEPT !.previous = c.current, !.current = r.tok,
                   !.scanner = r.s]

\* compiler.advance
advance(src, c) == advanced(c, nextToken(src, c.scanner))

\* consume taking whatever token is current.
consumeAny(src, c, typ) == advance(src, c)

consume(src, c, typ) ==
    IF c.current.typ # typ
    THEN WithErr(c, Err("expected %v, got %v", 0, typ, c.current.typ, <<>>))
    ELSE advance(src, c)

DigitVal(ch) ==
    CASE ch = "0" -> 0 [] ch = "1" -> 1 [] ch = "2" -> 2 [] ch = "3" -> 3
      [] ch = "4" -> 4 [] ch = "5" -> 5 [] ch = "6" -> 6 [] ch = "7" -> 7
      [] ch = "8" -> 8 [] ch = "9" -> 9

RECURSIVE DecValue(_)
DecValue(ds) ==
    IF ds = <<>> THEN 0
    ELSE 10 * DecValue(SubSeq(ds, 1, Len(ds) - 1)) + DigitVal(ds[Len(ds)])

RECURSIVE Pow10(_)
Pow10(k) == IF k = 0 THEN 1 ELSE 10 * Pow10(k - 1)

\* strconv.ParseFloat(data, 64) on decimal text without sign or exponent:
\* digits with at most one ".", at least one digit.
ParseFloat(data) ==
    LET dots == {i \in 1..Len(data) : data[i] = "."}
        ok == /\ \A i \in 1..Len(data) : data[i] \in Digits \cup {"."}
              /\ Cardinality(dots) <= 1
              /\ Cardinality(dots) < Len(data)
    IN
    IF ~ok THEN [ok |-> FALSE, f |-> NaN]
    ELSE IF dots = {} THEN [ok |-> TRUE, f |-> Fin(1, DecValue(data), 1)]
    ELSE LET p == CHOOSE i \in dots : TRUE
             ip0 == SubSeq(data, 1, p - 1)
             fp == SubSeq(data, p + 1, Len(data))
         IN [ok |-> TRUE,
             f |-> Fin(1, DecValue(ip0) * Pow10(Len(fp)) + DecValue(fp),
                       Pow10(Len(fp)))]

\* compiler.literal
literal(c) ==
    LET typ == c.previous.typ IN
    IF typ \notin DOMAIN literalOps
    THEN WithErr(c, Err("unknown literal token: %s", 0, typ, "", <<>>))
    ELSE [c EXCEPT !.chunk = addOp(@, literalOps[typ])]

\* compiler.number refusing the constant after the 257th only.
numberAddedLate(c, a) ==
    IF a.index > MaxConstIndex + 1
    THEN WithErr([c EXCEPT !.chunk = a.chunk],
                 Err("too many constants", 0, "", "", <<>>))
    ELSE [c EXCEPT !.chunk = addByte(addOp(a.chunk, OpConstant),
                                     ToByte(a.index))]

\* compiler.number from chunk.addVal on.
numberAdded(c, a) ==
    IF a.index > MaxConstIndex
    THEN WithErr([c EXCEPT !.chunk = a.chunk],
                 Err("too many constants", 0, "", "", <<>>))
    ELSE [c EXCEPT !.chunk = addByte(addOp(a.chunk, OpConstant),
                                     ToByte(a.index))]

numberParsed(c, p) ==
    IF ~p.ok
    THEN WithErr(c, Err("strconv.ParseFloat: invalid syntax", 0, "", "",
                        c.previous.data))
    ELSE numberAdded(c, addVal(c.chunk, numberValue(p.f)))

\* compiler.number
number(c) == numberParsed(c, ParseFloat(c.previous.data))

\* getParseRule giving a kind without an entry the rule of the end of input.
getParseRuleLenient(c, typ) ==
    IF typ \notin DOMAIN parseRules
    THEN [ok |-> TRUE, rule |-> Rule("nil", "nil", precNone), err |-> NoErr]
    ELSE [ok |-> TRUE, rule |-> parseRules[typ], err |-> NoErr]

getParseRule(c, typ) ==
    IF typ \notin DOMAIN parseRules
    THEN [ok |-> FALSE, rule |-> Rule("nil", "nil", precNone),
          err |-> Err("unknown token type: %s", 0, typ, "", <<>>)]
    ELSE [ok |-> TRUE, rule |-> parseRules[typ], err |-> NoErr]

RECURSIVE parse(_, _, _)
RECURSIVE infixLoop(_, _, _)

\* compiler.expression
expression(src, c) == parse(src, c, precAssignment)

groupingEnd(src, c1) ==
    IF Failed(c1) THEN c1 ELSE consume(src, c1, "TokenRightParen")

\* compiler.grouping
grouping(src, c) == groupingEnd(src, expression(src, c))

unaryEnd(c1, typ) ==
    IF Failed(c1) THEN c1
    ELSE IF typ \notin DOMAIN unaryOps
    THEN WithErr(c1, Err("unknown unary op: %s", 0, typ, "", <<>>))
    ELSE [c1 EXCEPT !.chunk = addOp(@, unaryOps[typ])]

\* unary looking its opcode up before it parses the operand.
unaryChecksFirst(src, c) ==
    IF c.previous.typ \notin DOMAIN unaryOps
    THEN WithErr(c, Err("unknown unary op: %s", 0, c.previous.typ, "", <<>>))
    ELSE unaryEnd(parse(src, c, precUnary), c.previous.typ)

\* compiler.unary
unary(src, c) == unaryEnd(parse(src, c, precUnary), c.previous.typ)

binaryEnd(c1, typ) ==
    IF Failed(c1) THEN c1
    ELSE IF typ \notin DOMAIN binaryOps
    THEN WithErr(c1, Err("unknown binary op: %s", 0, typ, "", <<>>))
    ELSE [c1 EXCEPT !.chunk = addOp(@, binaryOps[typ])]

\* binary parsing its right operand at the operator's own precedence.
binaryRuleSameLevel(src, c, g) ==
    IF ~g.ok THEN WithErr(c, g.err)
    ELSE binaryEnd(parse(src, c, g.rule.precedence), c.previous.typ)

binaryRule(src, c, g) ==
    IF ~g.ok THEN WithErr(c, g.err)
    ELSE binaryEnd(parse(src, c, g.rule.precedence + 1), c.previous.typ)

\* compiler.binary
binary(src, c) == binaryRule(src, c, getParseRule(c, c.previous.typ))

\* A call of a parseFn of the rule table; calling the nil parseFn panics.
callParseFn(src, fn, c) ==
    CASE fn = "literal" -> literal(c)
      [] fn = "number" -> number(c)
      [] fn = "grouping" -> grouping(src, c)
      [] fn = "unary" -> unary(src, c)
      [] fn = "binary" -> binary(src, c)
      [] OTHER -> [c EXCEPT !.panic = TRUE]

\* The handler has returned: its error, or the for loop of compiler.parse.
afterHandler(src, c2, prec) ==
    IF Failed(c2) THEN c2 ELSE infixLoop(src, c2, prec)

infixCall(src, c1, fn, prec) ==
    IF Failed(c1) THEN c1
    ELSE afterHandler(src, callParseFn(src, fn, c1), prec)

infixRule(src, c, g, prec) ==
    IF ~g.ok THEN WithErr(c, g.err)
    ELSE IF prec > g.rule.precedence THEN c
    ELSE infixCall(src, advance(src, c), g.rule.infix, prec)

\* One iteration of the for loop of compiler.parse.
infixLoop(src, c, prec) ==
    infixRule(src, c, getParseRule(c, c.current.typ), prec)

prefixRule(src, c1, g, prec) ==
    IF ~g.ok THEN WithErr(c1, g.err)
    ELSE IF g.rule.prefix = "nil"
    THEN WithErr(c1, Err("syntax error", 0, "", "", <<>>))
    ELSE afterHandler(src, callParseFn(src, g.rule.prefix, c1), prec)

prefixCall(src, c1, prec) ==
    IF Failed(c1) THEN c1
    ELSE prefixRule(src, c1, getParseRule(c1, c1.previous.typ), prec)

\* compiler.parse
parse(src, c, prec) == prefixCall(src, advance(src, c), prec)

(***************************************************************************)
(* VM: one iteration of the dispatch loop of vm.run.                       *)
(***************************************************************************)
\* Stack.pop panics on an empty stack (index out of range).
popPanics(st) == Len(st) = 0

pop(st) == [val |-> st[Len(st)], stack |-> SubSeq(st, 1, Len(st) - 1)]

push(st, val) == Append(st, val)

\* The outcome of one instruction: the stack, the values printed, the
\* error returned (NoErr for nil) and whether the instruction panicked.
Outcome(st, o, e, p) == [stack |-> st, out |-> o, err |-> e, panic |-> p]

\* The closure unary of vm.run applied to negateValue or notValue.
Returned(rest, o, res) ==
    IF res.panic THEN Outcome(rest, o, NoErr, TRUE)
    ELSE IF res.err = "" THEN Outcome(push(rest, res.v), o, NoErr, FALSE)
    ELSE Outcome(rest, o, Err(res.err, 0, "", "", <<>>), FALSE)

vmUnary(st, o, op) ==
    IF popPanics(st) THEN Outcome(st, o, NoErr, TRUE)
    ELSE Returned(pop(st).stack, o,
                  IF op = OpNegate THEN negateValue(pop(st).val)
                  ELSE notValue(pop(st).val))

binaryFn(op, a, b) ==
    CASE op = OpAdd -> addValues(a, b)
      [] op = OpSubtract -> subtractValues(a, b)
      [] op = OpMultiply -> multiplyValues(a, b)
      [] op = OpDivide -> divideValues(a, b)
      [] op = OpEqual -> valuesEqual(a, b)
      [] op = OpGreater -> valueGreater(a, b)
      [] op = OpLess -> valueLess(a, b)

\* The closure binary of vm.run: b is popped first, then a.
vmBinary(st, o, op) ==
    IF Len(st) < 2 THEN Outcome(st, o, NoErr, TRUE)
    ELSE Returned(pop(pop(st).stack).stack, o,
                  binaryFn(op, pop(pop(st).stack).val, pop(st).val))

\* Return printing the value at the bottom of the stack.
printFirst(st, o) ==
    IF popPanics(st) THEN Outcome(st, o, NoErr, TRUE)
    ELSE Outcome(Tail(st), Append(o, Head(st)), NoErr, FALSE)

\* case OpReturn: fmt.Println(stack.pop())
printTop(st, o) ==
    IF popPanics(st) THEN Outcome(st, o, NoErr, TRUE)
    ELSE Outcome(pop(st).stack, Append(o, pop(st).val), NoErr, FALSE)

\* dumpOp reads the operand of a Constant and the slot it names.
operandPanics(ch, at) ==
    \/ at + 2 > Len(ch.code)
    \/ ch.code[at + 2] >= Len(ch.vals)

\* The switch of vm.run on the opcode at ip (0-based), after dumpOp.
dispatch(ch, at, st, o) ==
    LET op == ch.code[at + 1] IN
    CASE op = OpConstant ->
            IF operandPanics(ch, at) THEN Outcome(st, o, NoErr, TRUE)
            ELSE Outcome(push(st, ch.vals[ch.code[at + 2] + 1]), o, NoErr,
                         FALSE)
      [] op = OpNil -> Outcome(push(st, nilValue), o, NoErr, FALSE)
      [] op = OpFalse -> Outcome(push(st, boolValue(FALSE)), o, NoErr, FALSE)
      [] op = OpTrue -> Outcome(push(st, boolValue(TRUE)), o, NoErr, FALSE)
      [] op \in {OpNegate, OpNot} -> vmUnary(st, o, op)
      [] op \in {OpAdd, OpSubtract, OpMultiply, OpDivide, OpEqual,
                 OpGreater, OpLess} -> vmBinary(st, o, op)
      [] op = OpReturn -> printTop(st, o)
      [] OTHER -> Outcome(st, o, Err("unknown op: %q", 0, "", "", <<>>),
                          FALSE)

\* Every instruction taken for one byte.
widthOne(op) == 1

\* The bytes the instruction at ip takes: Constant does ip++ for its operand.
width(op) == IF op = OpConstant THEN 2 ELSE 1

(***************************************************************************)
(* Source texts.                                                           *)
(***************************************************************************)
RECURSIVE Flatten(_)
Flatten(lexemes) ==
    IF lexemes = <<>> THEN <<>>
    ELSE Head(lexemes) \o Flatten(Tail(lexemes))

SeqsUpTo(S, n) == UNION {[1..k -> S] : k \in 0..n}

\* Every byte string up to MaxSrcLen over bytes that make numbers,
\* identifiers, strings, comments, white space and a two-byte letter.
ScanAlphabet == {"1", "a", "/", " ", "\n", "\"", LeadByte, ContByte}

ScanSources == SeqsUpTo(ScanAlphabet, MaxSrcLen)

\* White space, comments and a literal in any mixture.
BlankAlphabet == {" ", "\n", "/", "1"}

BlankSources == SeqsUpTo(BlankAlphabet, MaxSrcLen)

BinaryLexemes == {<<"+">>, <<"-">>, <<"*">>, <<"/">>, <<"=", "=">>,
                  <<">">>, <<"<">>}

ExprDigits == {<<"2">>, <<"3">>}

\* d1 op1 d2 ... dn with "(" before operand i and ")" after operand j
\* (i = 0: no parentheses).
RECURSIVE ExprLexemes(_, _, _, _, _)
ExprLexemes(k, ds, os, i, j) ==
    IF k > Len(ds) THEN <<>>
    ELSE (IF k = i THEN <<<<"(">>>> ELSE <<>>)
         \o <<ds[k]>>
         \o (IF k = j THEN <<<<")">>>> ELSE <<>>)
         \o (IF k < Len(ds) THEN <<os[k]>> ELSE <<>>)
         \o ExprLexemes(k + 1, ds, os, i, j)

ExprSources ==
    UNION {
        {Flatten(ExprLexemes(1, ds, os, p[1], p[2])) :
            ds \in [1..n -> ExprDigits],
            os \in [1..(n - 1) -> BinaryLexemes],
            p \in {<<0, 0>>} \cup {<<i, j>> \in (1..n) \X (1..n) : i <= j}}
        : n \in 1..MaxOperands}

\* Literals of every type under unary operators, alone and in pairs.
Atoms == {<<"1">>, <<"0">>, <<"n", "i", "l">>, <<"t", "r", "u", "e">>,
          <<"f", "a", "l", "s", "e">>}

Operands ==
    {Flatten(u) \o a : u \in SeqsUpTo({<<"-">>, <<"!">>}, MaxUnary),
                       a \in Atoms}

TypeSources ==
    Operands \cup {a \o op \o b : a \in Operands, op \in BinaryLexemes,
                                  b \in Operands}

\* An operator or another token in prefix position: what stands before it,
\* and what follows it (or follows its operand).
PrefixContexts == {<<>>, <<"-">>, <<"(">>, <<"1", "+">>}

Followers == {<<>>, <<"*", "2">>, <<" ", "2", " ", "3">>}

NotUnaryLexemes == {<<"+">>, <<"*">>, <<"/">>}

UnaryOperands == {<<"5">>, <<"(", "5", ")">>, <<"-", "5">>}

NoPrefixLexemes == {<<")">>, <<"=", "=">>, <<">">>, <<"<">>, <<>>}

NotUnarySource(pre, op, operand, rest) == pre \o op \o operand \o rest

NotUnarySources ==
    {NotUnarySource(pre, op, operand, rest) :
        pre \in PrefixContexts, op \in NotUnaryLexemes,
        operand \in UnaryOperands, rest \in Followers}

\* The end of the input stands in prefix position only after a context.
NoPrefixCases ==
    {x \in PrefixContexts \X NoPrefixLexemes \X Followers :
        x[2] = <<>> => (x[1] # <<>> /\ x[3] = <<>>)}

NoPrefixSource(pre, off, rest) == pre \o off \o rest

NoPrefixSources == {NoPrefixSource(x[1], x[2], x[3]) : x \in NoPrefixCases}

PrefixSources == NotUnarySources \cup NoPrefixSources

\* A grouping that is not closed: "(" at the end of the input, and "(" with
\* an inner expression followed by a token that is not ")".
GroupContexts == {<<>>, <<"-">>, <<"1", "+">>}

Inners == {<<"1">>, <<"1", "+", "2">>, <<"(", "1", ")">>}

NotClosing == {<<>>, <<" ", "2">>, <<"(">>, <<"!">>, <<" ", "n", "i", "l">>}

OpenSource(ctx) == ctx \o <<"(">>

OpenSources == {OpenSource(ctx) : ctx \in GroupContexts}

UnclosedSource(ctx, inner, after) == ctx \o <<"(">> \o inner \o after

UnclosedSources ==
    {UnclosedSource(ctx, inner, after) :
        ctx \in GroupContexts, inner \in Inners, after \in NotClosing}

GroupSources == OpenSources \cup UnclosedSources

\* Comparisons of quotients by zero: 0/0 is NaN, 1/0 and -1/0 the infinities.
Quotients == {<<"0", "/", "0">>, <<"1", "/", "0">>, <<"-", "1", "/", "0">>,
              <<"1">>, <<"0">>}

QuotientSources == {a \o <<"=", "=">> \o b : a \in Quotients, b \in Quotients}

\* A character the scanner has no token for ("@" gives an Error token), at
\* the start of an expression, after an operand and after an operator,
\* on the first line and on the second.
ErrorTokenContexts == {<<>>, <<"\n">>, <<"1", " ">>, <<"1", "\n">>,
                       <<"1", "+">>, <<"1", "\n", "+">>, <<"-">>, <<"(">>}

ErrorTokenSources ==
    {pre \o <<"@">> \o rest : pre \in ErrorTokenContexts,
                              rest \in {<<>>, <<" ", "2">>}}

\* n one-digit literals, the k-th being k * stride mod 10, in sums of
\* chain literals each that follow one another after a space.
DigitChar(i) ==
    CASE i = 0 -> "0" [] i = 1 -> "1" [] i = 2 -> "2" [] i = 3 -> "3"
      [] i = 4 -> "4" [] i = 5 -> "5" [] i = 6 -> "6" [] i = 7 -> "7"
      [] i = 8 -> "8" [] i = 9 -> "9"

LitSource(n, stride, chain) ==
    [i \in 1..(2 * n - 1) |->
        IF i % 2 = 1 THEN DigitChar((((i - 1) \div 2) * stride) % 10)
        ELSE IF (i \div 2) % chain = 0 THEN " " ELSE "+"]

LitCounts == {1, 2} \cup (MaxConstIndex..(MaxConstIndex + 1 + ExtraLits))

LitSources ==
    {LitSource(n, stride, chain) :
        n \in LitCounts, stride \in {0, 1, 3}, chain \in {1, 4}}

\* The tokens that the scanner makes and the rule table has no entry for,
\* each with its kind: at the start of an expression, after a complete
\* operand and after a binary operator; alone and followed by a number.
UnruledTokens ==
    {<<<<"!", "=">>, "TokenBangEqual">>,
     <<<<"<", "=">>, "TokenLessEqual">>,
     <<<<">", "=">>, "TokenGreaterEqual">>,
     <<<<"=">>, "TokenEqual">>,
     <<<<"\"", "a", "\"">>, "TokenString">>,
     <<<<"a">>, "TokenIdentifier">>,
     <<<<";">>, "TokenSemicolon">>,
     <<<<"{">>, "TokenLeftBrace">>,
     <<<<"}">>, "TokenRightBrace">>,
     <<<<",">>, "TokenComma">>,
     <<<<".">>, "TokenDot">>,
     <<<<"a", "n", "d">>, "TokenAnd">>,
     <<<<"c", "l", "a", "s", "s">>, "TokenClass">>,
     <<<<"e", "l", "s", "e">>, "TokenElse">>,
     <<<<"f", "o", "r">>, "TokenFor">>,
     <<<<"f", "u", "n">>, "TokenFun">>,
     <<<<"i", "f">>, "TokenIf">>,
     <<<<"o", "r">>, "TokenOr">>,
     <<<<"p", "r", "i", "n", "t">>, "TokenPrint">>,
     <<<<"r", "e", "t", "u", "r", "n">>, "TokenReturn">>,
     <<<<"s", "u", "p", "e", "r">>, "TokenSuper">>,
     <<<<"v", "a", "r">>, "TokenVar">>,
     <<<<"w", "h", "i", "l", "e">>, "TokenWhile">>}

UnruledContexts == {<<>>, <<"1", " ">>, <<"1", "+">>}

UnruledFollowers == {<<>>, <<" ", "2">>}

UnruledSource(pre, lexeme, rest) == pre \o lexeme \o rest

UnruledSources ==
    {UnruledSource(pre, t[1], rest) :
        pre \in UnruledContexts, t \in UnruledTokens,
        rest \in UnruledFollowers}

\* Fourteen literals: the last one has the constant index 13, the number of
\* the opcode Return.
ReturnIndexSources == {LitSource(OpReturn + 1, 1, chain) : chain \in {1, 4}}

Sources ==
    BlankSources \cup ExprSources \cup TypeSources \cup PrefixSources
        \cup GroupSources \cup QuotientSources \cup ErrorTokenSources
        \cup ReturnIndexSources \cup UnruledSources

(***************************************************************************)
(* The program: interpret (compile, then run) and a client of nextToken.   *)
(***************************************************************************)
InitWith(src, at) ==
    /\ source = src
    /\ pc = at
    /\ scanner = newScanner
    /\ tokens = <<>>
    /\ current = ZeroToken
    /\ previous = ZeroToken
    /\ chunk = NilChunk
    /\ err = NoErr
    /\ ip = 0
    /\ stack = <<>>
    /\ out = <<>>

Init == \E src \in Sources : InitWith(src, "interpret")

ConstInit == \E src \in LitSources : InitWith(src, "interpret")

ScanInit == \E src \in ScanSources : InitWith(src, "scan")

\* A call of scanner.nextToken by a client of the scanner.
NextToken ==
    /\ pc = "scan"
    /\ Len(tokens) < MaxCalls
    /\ LET r == nextToken(source, scanner) IN
       IF r.hang
       THEN /\ pc' = "hang"
            /\ UNCHANGED <<scanner, tokens>>
       ELSE /\ pc' = "scan"
            /\ scanner' = r.s
            /\ tokens' = Append(tokens, r.tok)
    /\ UNCHANGED <<source, current, previous, chunk, err, ip, stack, out>>

\* How a call of the compiler ended, as a program position.
After(c, ok) ==
    IF c.hang THEN "hang"
    ELSE IF c.panic THEN "panic"
    ELSE IF c.err # NoErr THEN "compile_error"
    ELSE ok

Store(c, ok) ==
    /\ pc' = After(c, ok)
    /\ scanner' = c.scanner
    /\ current' = c.current
    /\ previous' = c.previous
    /\ chunk' = IF c.err # NoErr THEN NilChunk ELSE c.chunk
    /\ err' = c.err
    /\ UNCHANGED <<source, tokens, ip, stack, out>>

\* compiler.compile up to the loop: a new chunk, a new scanner, advance.
CompileBegin ==
    /\ pc = "interpret"
    /\ Store(advance(source,
                     Compiler(newScanner, current, previous, EmptyChunk)),
             "compile")

\* compile leaving its loop without the final instruction.
compileEndBare(c) == c

\* compiler.compile after the loop: chunk.addOp(OpReturn).
compileEnd(c) == [c EXCEPT !.chunk = addOp(@, OpReturn)]

\* One iteration of the loop of compiler.compile.
CompileLoop ==
    /\ pc = "compile"
    /\ LET c == Compiler(scanner, current, previous, chunk) IN
       CASE current.typ = "TokenError" ->
                Store(WithErr(c, Err("%d: %s", current.line, "", "",
                                     current.data)), "compile")
         [] current.typ = "TokenEOF" ->
                Store(compileEnd(c), "compiled")
         [] OTHER -> Store(expression(source, c), "compile")

\* interpret hands the chunk to vm.run: a new stack, ip = 0.
RunBegin ==
    /\ pc = "compiled"
    /\ pc' = "run"
    /\ ip' = 0
    /\ stack' = <<>>
    /\ UNCHANGED <<source, scanner, tokens, current, previous, chunk, err,
                   out>>

\* One instruction of vm.run.
VMStep ==
    /\ pc = "run"
    /\ ip < Len(chunk.code)
    /\ LET r == dispatch(chunk, ip, stack, out) IN
       /\ stack' = r.stack
       /\ out' = r.out
       /\ err' = r.err
       /\ pc' = IF r.panic THEN "panic"
                ELSE IF r.err # NoErr THEN "run_error"
                ELSE "run"
       /\ ip' = IF r.panic \/ r.err # NoErr THEN ip
                ELSE ip + width(chunk.code[ip + 1])
    /\ UNCHANGED <<source, scanner, tokens, current, previous, chunk>>

\* vm.run returns nil when ip runs past the code.
VMReturn ==
    /\ pc = "run"
    /\ ip >= Len(chunk.code)
    /\ pc' = "done"
    /\ UNCHANGED <<source, scanner, tokens, current, previous, chunk, err,
                   ip, stack, out>>

Next == CompileBegin \/ CompileLoop \/ RunBegin \/ VMStep \/ VMReturn

Spec == Init /\ [][Next]_vars

ConstSpec == ConstInit /\ [][Next]_vars

ScanNext == NextToken

ScanSpec == ScanInit /\ [][ScanNext]_vars

(***************************************************************************)
(* Reference reading of an expression over one-digit numbers, the binary   *)
(* operators and parentheses: it splits at the rightmost operator of the   *)
(* loosest level outside parentheses.                                      *)
(***************************************************************************)
RECURSIVE RefLex(_)
RefLex(src) ==
    IF src = <<>> THEN <<>>
    ELSE IF Len(src) >= 2 /\ src[1] = "=" /\ src[2] = "="
    THEN <<"==">> \o RefLex(SubSeq(src, 3, Len(src)))
    ELSE <<src[1]>> \o RefLex(Tail(src))

\* 1 is the loosest level; 0: not a binary operator.
RefLevel(tk) ==
    CASE tk = "==" -> 1
      [] tk \in {">", "<"} -> 2
      [] tk \in {"+", "-"} -> 3
      [] tk \in {"*", "/"} -> 4
      [] OTHER -> 0

RefOp(tk) ==
    CASE tk = "==" -> OpEqual [] tk = ">" -> OpGreater [] tk = "<" -> OpLess
      [] tk = "+" -> OpAdd [] tk = "-" -> OpSubtract
      [] tk = "*" -> OpMultiply [] tk = "/" -> OpDivide

RefDepth(toks, i) ==
    Cardinality({j \in 1..(i - 1) : toks[j] = "("})
    - Cardinality({j \in 1..(i - 1) : toks[j] = ")"})

RefTopOps(toks) ==
    {i \in 1..Len(toks) : RefLevel(toks[i]) > 0 /\ RefDepth(toks, i) = 0}

\* The place to split at, 0 when no operator stands outside parentheses.
RefSplit(toks) ==
    LET tops == RefTopOps(toks) IN
    IF tops = {} THEN 0
    ELSE CHOOSE i \in tops :
            \A j \in tops :
                \/ RefLevel(toks[i]) < RefLevel(toks[j])
                \/ RefLevel(toks[i]) = RefLevel(toks[j]) /\ j <= i

RECURSIVE RefWF(_)
RefWF(toks) ==
    LET at == RefSplit(toks) IN
    IF toks = <<>> THEN FALSE
    ELSE IF at > 0
    THEN /\ RefWF(SubSeq(toks, 1, at - 1))
         /\ RefWF(SubSeq(toks, at + 1, Len(toks)))
    ELSE IF Len(toks) = 1 THEN toks[1] \in Digits
    ELSE /\ toks[1] = "("
         /\ toks[Len(toks)] = ")"
         /\ RefWF(SubSeq(toks, 2, Len(toks) - 1))

RefApply(op, l, r) ==
    IF l.err # "" THEN l ELSE IF r.err # "" THEN r ELSE binaryFn(op, l.v, r.v)

RefNumber(digit) == numberValue(Fin(1, DigitVal(digit), 1))

RECURSIVE RefEval(_)
RefEval(toks) ==
    LET at == RefSplit(toks) IN
    IF at > 0
    THEN RefApply(RefOp(toks[at]), RefEval(SubSeq(toks, 1, at - 1)),
                  RefEval(SubSeq(toks, at + 1, Len(toks))))
    ELSE IF Len(toks) = 1 THEN Ok(RefNumber(toks[1]))
    ELSE RefEval(SubSeq(toks, 2, Len(toks) - 1))

Ended == pc \in {"done", "run_error", "compile_error", "panic", "hang"}

(***************************************************************************)
(* C1 (safety).  Claim: on a chunk that compile returned, run never pops   *)
(* an empty stack: at every Negate or Not the stack holds at least one     *)
(* value, at every binary opcode at least two, at every Return at least    *)
(* one, for every source, the empty one included.                          *)
(***************************************************************************)
PopsOf(op) ==
    IF op \in {OpNegate, OpNot, OpReturn} THEN 1
    ELSE IF op \in {OpAdd, OpSubtract, OpMultiply, OpDivide, OpEqual,
                    OpGreater, OpLess} THEN 2
    ELSE 0

C1_NeverPopsEmpty ==
    (pc = "run" /\ ip < Len(chunk.code))
        => PopsOf(chunk.code[ip + 1]) <= Len(stack)

(***************************************************************************)
(* C2 (precedence).  For every single expression over number literals,     *)
(* + - * / == > < and parentheses, compile followed by run ends with the   *)
(* value of the reference reading, in which * / bind tighter than + -,     *)
(* these tighter than > <, these tighter than ==, and a parenthesised      *)
(* expression is one operand: the value is the only one printed, or the    *)
(* run ends with the type mismatch of the reference reading.               *)
(***************************************************************************)
C2_Precedence ==
    (Ended /\ RefWF(RefLex(source)))
        => LET ref == RefEval(RefLex(source)) IN
           IF ref.err = ""
           THEN pc = "done" /\ out = <<ref.v>>
           ELSE pc = "run_error" /\ err.msg = ref.err /\ out = <<>>

\* (2+3)*2 has printed 10.
C2_Witness ==
    /\ pc = "done"
    /\ source = <<"(", "2", "+", "3", ")", "*", "2">>
    /\ out = <<numberValue(Fin(1, 10, 1))>>

(***************************************************************************)
(* C3 (left associativity).  For every chain a op1 b op2 c of two binary   *)
(* operators of the same level (both of + -, both of * /, both of > <) the *)
(* compiler emits a, b, op1, c, op2 in this order, and the VM computes     *)
(* (a op1 b) op2 c.                                                        *)
(***************************************************************************)
IsChain(src) ==
    /\ Len(src) = 5
    /\ \A i \in {1, 3, 5} : src[i] \in Digits
    /\ RefLevel(src[2]) \in {2, 3, 4}
    /\ RefLevel(src[2]) = RefLevel(src[4])

C3_LeftAssociative ==
    (IsChain(source) /\ pc \notin {"interpret", "compile"})
        => /\ ~chunk.isNil
           /\ chunk.code = <<OpConstant, 0, OpConstant, 1, RefOp(source[2]),
                             OpConstant, 2, RefOp(source[4]), OpReturn>>
           /\ chunk.vals = <<RefNumber(source[1]), RefNumber(source[3]),
                             RefNumber(source[5])>>
           /\ Ended =>
                LET res == RefApply(RefOp(source[4]),
                                    binaryFn(RefOp(source[2]),
                                             RefNumber(source[1]),
                                             RefNumber(source[3])),
                                    Ok(RefNumber(source[5])))
                IN IF res.err = "" THEN pc = "done" /\ out = <<res.v>>
                   ELSE pc = "run_error" /\ out = <<>>

\* 3-2-2 has printed -1 (and not 3).
C3_Witness ==
    /\ pc = "done"
    /\ source = <<"3", "-", "2", "-", "2">>
    /\ out = <<numberValue(Fin(-1, 1, 1))>>

(***************************************************************************)
(* C4 (scanner).  Claim: before each token the scanner skips every run of  *)
(* spaces, tabs, carriage returns, newlines and // comments: nextToken     *)
(* never returns a token whose span starts at a white space, a newline or  *)
(* a comment; after a comment ended by a newline the next call returns the *)
(* first token of the following line or EndOfInput, not an Error token.    *)
(* Stated for ASCII sources.                                               *)
(***************************************************************************)
IsASCII(src) == \A i \in 1..Len(src) : src[i] \notin {LeadByte, ContByte}

StartsBlank(src, at) ==
    \/ src[at + 1] \in {" ", "\t", "\r", "\n"}
    \/ src[at + 1] = "/" /\ at + 2 <= Len(src) /\ src[at + 2] = "/"

C4_SkipsBlanks ==
    (pc = "scan" /\ tokens # <<>> /\ IsASCII(source)
        /\ scanner.start < Len(source))
        => ~StartsBlank(source, scanner.start)

(***************************************************************************)
(* C7 (termination).  Claim: every call of nextToken returns, and every    *)
(* call made before the end of the input moves the cursor forward by at    *)
(* least one position, for every source, multi-byte characters included.   *)
(***************************************************************************)
C7_Progress ==
    [][(pc = "scan" /\ ~isEOF(source, scanner))
          => (pc' = "scan" /\ scanner'.current > scanner.current)]_vars

(***************************************************************************)
(* C8 (temporal).  Once nextToken has returned EndOfInput, every later     *)
(* call returns EndOfInput again and leaves the cursor and the line        *)
(* counter as they are.                                                    *)
(***************************************************************************)
LastToken == tokens[Len(tokens)]

C8_EndIsAbsorbing ==
    [][(pc = "scan" /\ tokens # <<>> /\ LastToken.typ = "TokenEOF")
          => /\ pc' = "scan"
             /\ tokens'[Len(tokens')].typ = "TokenEOF"
             /\ scanner'.current = scanner.current
             /\ scanner'.line = scanner.line]_vars

\* Two calls in a row have returned EndOfInput, after a token and a newline.
C8_Witness ==
    /\ Len(tokens) >= 3
    /\ LastToken.typ = "TokenEOF"
    /\ tokens[Len(tokens) - 1].typ = "TokenEOF"
    /\ scanner.line = 1

(***************************************************************************)
(* C5 (type errors).  When the VM executes Add, Subtract, Multiply,        *)
(* Divide, Greater or Less and one of the two operands popped is not a     *)
(* Number, run returns "type mismatch", stops at that instruction, pushes  *)
(* no result and prints nothing; when both are Numbers the instruction     *)
(* does not fail and pushes its result.                                    *)
(***************************************************************************)
AtArithmetic ==
    /\ pc = "run"
    /\ ip < Len(chunk.code)
    /\ chunk.code[ip + 1] \in {OpAdd, OpSubtract, OpMultiply, OpDivide,
                               OpGreater, OpLess}
    /\ Len(stack) >= 2

C5_TypeMismatch ==
    [][/\ pc # "run_error"
       /\ AtArithmetic =>
            IF /\ stack[Len(stack) - 1].typ = "ValueNumber"
               /\ stack[Len(stack)].typ = "ValueNumber"
            THEN /\ pc' = "run"
                 /\ err' = NoErr
                 /\ ip' = ip + 1
                 /\ Len(stack') = Len(stack) - 1
                 /\ stack'[Len(stack')].typ =
                        IF chunk.code[ip + 1] \in {OpGreater, OpLess}
                        THEN "ValueBool" ELSE "ValueNumber"
            ELSE /\ pc' = "run_error"
                 /\ err'.msg = "type mismatch"
                 /\ ip' = ip
                 /\ stack' = SubSeq(stack, 1, Len(stack) - 2)
                 /\ out' = out
                 /\ out = <<>>]_vars

\* 1+true has ended in the type mismatch with nothing printed.
C5_Witness ==
    /\ pc = "run_error"
    /\ source = <<"1", "+", "t", "r", "u", "e">>
    /\ err.msg = "type mismatch"
    /\ chunk.code[ip + 1] = OpAdd
    /\ out = <<>>

(***************************************************************************)
(* C6 (Negate).  Claim: Negate has no type check and converts regardless   *)
(* of the tag: on Nil, Bool or Number it completes normally and pushes a   *)
(* Number.                                                                 *)
(***************************************************************************)
AtNegate ==
    /\ pc = "run"
    /\ ip < Len(chunk.code)
    /\ chunk.code[ip + 1] = OpNegate
    /\ Len(stack) >= 1

RECURSIVE ZerosBefore(_, _)
ZerosBefore(code, i) ==
    IF i = 1 \/ code[i - 1] # OpConstant THEN 0
    ELSE 1 + ZerosBefore(code, i - 1)

IsOpcodeAt(code, i) == ZerosBefore(code, i) % 2 = 0

\* The places (1-based) of the Constant opcodes, in order.
ConstantPlaces(code) ==
    SelectSeq([i \in 1..Len(code) |-> i],
              LAMBDA i : code[i] = OpConstant /\ IsOpcodeAt(code, i))

\* The digits of the source, in order: its literals when each is one digit.
LiteralDigits(src) == SelectSeq(src, LAMBDA b : b \in Digits)

(***************************************************************************)
(* C9 (constant operands).  In every chunk that compile returns, each      *)
(* Constant is followed by an operand byte that is an index into the       *)
(* constant pool (operand < number of constants <= 256), and the slot      *)
(* holds the value of the literal the instruction was compiled from, also  *)
(* for the 256th literal (index 255).                                      *)
(***************************************************************************)
C9_ConstantOperands ==
    (pc = "compiled")
        => LET at == ConstantPlaces(chunk.code)
               lits == LiteralDigits(source)
           IN /\ ~chunk.isNil
              /\ Len(chunk.vals) <= 256
              /\ Len(at) = Len(lits)
              /\ \A k \in 1..Len(at) :
                    /\ at[k] + 1 <= Len(chunk.code)
                    /\ chunk.code[at[k] + 1] < Len(chunk.vals)
                    /\ chunk.vals[chunk.code[at[k] + 1] + 1]
                           = RefNumber(lits[k])

\* A chunk of 256 literals, the last of them 255 * 3 mod 10 = 5 at index 255.
C9_Witness ==
    /\ pc = "compiled"
    /\ Len(LiteralDigits(source)) = 256
    /\ LET at == ConstantPlaces(chunk.code) IN
       /\ Len(at) = 256
       /\ chunk.code[at[256] + 1] = 255
       /\ chunk.vals[256] = RefNumber("5")

(***************************************************************************)
(* C10 (pool boundary).  A source of up to 256 number literals compiles;   *)
(* a source whose 257th literal the compiler reaches fails with "too many  *)
(* constants" and returns no chunk; literals count per occurrence, equal   *)
(* or not.                                                                 *)
(***************************************************************************)
C10_PoolBoundary ==
    (pc \notin {"interpret", "compile"})
        => IF Len(LiteralDigits(source)) <= 256
           THEN pc \notin {"compile_error", "panic", "hang"} /\ ~chunk.isNil
           ELSE /\ pc = "compile_error"
                /\ err.msg = "too many constants"
                /\ chunk.isNil

\* 257 literals, all of them 0, have been refused.
C10_Witness ==
    /\ pc = "compile_error"
    /\ err.msg = "too many constants"
    /\ Len(source) = 513
    /\ \A i \in 1..Len(source) : source[i] \in {"0", " "}

(***************************************************************************)
(* C11 (two-stage unary failure).  When + * or / stands in prefix          *)
(* position before a well-formed operand, compile parses the operand at    *)
(* Unary precedence and emits its code, and only then fails with "unknown  *)
(* unary op": the last token taken is the last one of the operand, one     *)
(* token of what follows has been scanned, and the chunk of the failed     *)
(* expression is the code of the operand.  When ) == > < or the end of the *)
(* input stands in prefix position, compile fails with "syntax error" and  *)
(* the last token taken is that very token.  No chunk is returned.         *)
(***************************************************************************)
LexemeType(lx) ==
    CASE lx = <<"+">> -> "TokenPlus"
      [] lx = <<"*">> -> "TokenStar"
      [] lx = <<"/">> -> "TokenSlash"
      [] lx = <<")">> -> "TokenRightParen"
      [] lx = <<"=", "=">> -> "TokenEqualEqual"
      [] lx = <<">">> -> "TokenGreater"
      [] lx = <<"<">> -> "TokenLess"
      [] lx = <<>> -> "TokenEOF"

\* The bytes nextToken takes for the first token of what follows.
Lookahead(rest) ==
    IF rest = <<>> THEN 0 ELSE IF rest[1] = " " THEN 2 ELSE 1

\* The compiler at the start of compile's loop on a source.
Started(src) ==
    advance(src, Compiler(newScanner, ZeroToken, ZeroToken, EmptyChunk))

C11_UnaryFailsLate(pre, op, operand, rest) ==
    /\ Ended =>
          /\ pc = "compile_error"
          /\ err.msg = "unknown unary op: %s"
          /\ err.a = LexemeType(op)
          /\ chunk = NilChunk
          /\ previous.typ \in {"TokenNumber", "TokenRightParen"}
          /\ scanner.current
                = Len(pre) + Len(op) + Len(operand) + Lookahead(rest)
    /\ (pc = "compile" /\ pre = <<>>) =>
          LET r == expression(source,
                              Compiler(scanner, current, previous, chunk))
          IN /\ r.err.msg = "unknown unary op: %s"
             /\ r.chunk = expression(operand, Started(operand)).chunk
             /\ Len(r.chunk.code) >= 2

C11_NoPrefixFailsAtOnce(pre, off, rest) ==
    /\ Ended =>
          /\ pc = "compile_error"
          /\ err.msg = "syntax error"
          /\ chunk = NilChunk
          /\ previous.typ = LexemeType(off)
          /\ scanner.current = Len(pre) + Len(off) + Lookahead(rest)
    /\ (pc = "compile" /\ pre = <<>>) =>
          expression(source, Compiler(scanner, current, previous, chunk))
              .chunk = EmptyChunk

C11_TwoStageUnary ==
    /\ \A pre \in PrefixContexts, op \in NotUnaryLexemes,
          operand \in UnaryOperands, rest \in Followers :
            source = NotUnarySource(pre, op, operand, rest)
                => C11_UnaryFailsLate(pre, op, operand, rest)
    /\ \A x \in NoPrefixCases :
            source = NoPrefixSource(x[1], x[2], x[3])
                => C11_NoPrefixFailsAtOnce(x[1], x[2], x[3])

\* "+5*2" has failed after the 5 was taken and the * scanned.
C11_Witness ==
    /\ source = <<"+", "5", "*", "2">>
    /\ pc = "compile_error"
    /\ err.msg = "unknown unary op: %s"
    /\ previous.data = <<"5">>
    /\ current.typ = "TokenStar"

(***************************************************************************)
(* C12 (unclosed grouping).  Claim: when the input ends right after a "("  *)
(* and when the inner expression of a grouping is followed by a token      *)
(* other than ")", compile fails with the error that names the expected    *)
(* TokenRightParen.                                                        *)
(***************************************************************************)
NotClosingType(after) ==
    CASE after = <<>> -> "TokenEOF"
      [] after = <<" ", "2">> -> "TokenNumber"
      [] after = <<"(">> -> "TokenLeftParen"
      [] after = <<"!">> -> "TokenBang"
      [] after = <<" ", "n", "i", "l">> -> "TokenNil"

ExpectedRightParen ==
    /\ pc = "compile_error"
    /\ chunk = NilChunk
    /\ err.msg = "expected %v, got %v"
    /\ err.a = "TokenRightParen"

C12_CitesRightParen ==
    (source \in GroupSources /\ Ended) => ExpectedRightParen

(***************************************************************************)
(* C12, amended.  When the input ends right after a "(", the end of the    *)
(* input stands in prefix position and compile fails with the plain        *)
(* "syntax error", which names no parenthesis.  When the inner expression  *)
(* of a grouping is complete and the next token is not ")" but the end of  *)
(* the input or a token whose rule has precedence None, compile fails with *)
(* "expected TokenRightParen, got" the kind of that token.  No chunk is    *)
(* returned.                                                               *)
(***************************************************************************)
C12_MissingParen ==
    /\ (source \in OpenSources /\ Ended) =>
            /\ pc = "compile_error"
            /\ chunk = NilChunk
            /\ err.msg = "syntax error"
            /\ previous.typ = "TokenEOF"
    /\ \A ctx \in GroupContexts, inner \in Inners, after \in NotClosing :
            (source = UnclosedSource(ctx, inner, after) /\ Ended) =>
                /\ ExpectedRightParen
                /\ err.b = NotClosingType(after)
                /\ current.typ = NotClosingType(after)

\* "(1+2" has failed at the end of the input, where ")" was required.
C12_Witness ==
    /\ source = <<"(", "1", "+", "2">>
    /\ pc = "compile_error"
    /\ err.msg = "expected %v, got %v"
    /\ err.b = "TokenEOF"

(***************************************************************************)
(* C13 (Equal).  Equal never fails, whatever the two operands: it pops     *)
(* them and pushes the Bool true when they have the same tag and are both  *)
(* Nil, or the same boolean, or numbers equal as floats (0 and -0 are      *)
(* equal, NaN equals nothing), and the Bool false otherwise, in particular *)
(* for every two operands of different tags.                               *)
(***************************************************************************)
AtEqual ==
    /\ pc = "run"
    /\ ip < Len(chunk.code)
    /\ chunk.code[ip + 1] = OpEqual
    /\ Len(stack) >= 2

SameNumber(x, y) ==
    /\ x.k # "nan"
    /\ y.k # "nan"
    /\ \/ x = y
       \/ x.k = "fin" /\ y.k = "fin" /\ x.n = 0 /\ y.n = 0

SameValue(a, b) ==
    /\ a.typ = b.typ
    /\ \/ a.typ = "ValueNil"
       \/ a.typ = "ValueBool" /\ a.b = b.b
       \/ a.typ = "ValueNumber" /\ SameNumber(a.f, b.f)

C13_EqualNeverFails ==
    [][AtEqual =>
        /\ pc' = "run"
        /\ err' = NoErr
        /\ ip' = ip + 1
        /\ out' = out
        /\ stack' = Append(SubSeq(stack, 1, Len(stack) - 2),
                           boolValue(SameValue(stack[Len(stack) - 1],
                                               stack[Len(stack)])))]_vars

\* nil == false has run to its end and printed false.
C13_Witness ==
    /\ source = <<"n", "i", "l", "=", "=", "f", "a", "l", "s", "e">>
    /\ pc = "done"
    /\ out = <<boolValue(FALSE)>>

(***************************************************************************)
(* C14 (compile errors).  Claim: every error that compile returns carries  *)
(* a line number; when the scanner has handed the compiler an Error token, *)
(* at the start of an expression, after an operand or after an operator,   *)
(* the error of compile reports the line of that token.                    *)
(***************************************************************************)
C14_ErrorsCarryLine ==
    pc = "compile_error" =>
        /\ err.line >= 1
        /\ current.typ = "TokenError" => err.line = current.line
        /\ previous.typ = "TokenError" /\ previous.line >= 1
                => err.line = previous.line

(***************************************************************************)
(* C15 (one Return).  Every chunk that compile returns holds exactly one   *)
(* Return instruction, and it is the last byte of the code (an operand     *)
(* byte 13 of a Constant is not an instruction).  Hence a run that returns *)
(* without error has printed exactly one value, and a run that returns a   *)
(* runtime error has printed none; nothing is printed before the Return.   *)
(***************************************************************************)
ReturnPlaces(code) ==
    {i \in 1..Len(code) : code[i] = OpReturn /\ IsOpcodeAt(code, i)}

C15_SingleReturn ==
    /\ pc \in {"compiled", "run", "done", "run_error"} =>
            /\ ~chunk.isNil
            /\ ReturnPlaces(chunk.code) = {Len(chunk.code)}
    /\ pc \in {"compiled", "run_error"} => out = <<>>
    /\ pc = "run" => Len(out) = IF ip < Len(chunk.code) THEN 0 ELSE 1
    /\ pc = "done" => Len(out) = 1

\* Fourteen literals have run: the operand 13 stands in the code before the
\* one Return, and one value was printed.
C15_Witness ==
    /\ pc = "done"
    /\ Len(out) = 1
    /\ Len(chunk.vals) = OpReturn + 1
    /\ \E i \in 1..(Len(chunk.code) - 1) :
            chunk.code[i] = OpReturn /\ ~IsOpcodeAt(chunk.code, i)

(***************************************************************************)
(* C16 (Not).  Not succeeds on every value: it pops the operand and pushes *)
(* the Bool that is the complement of its truthiness, where Nil is false,  *)
(* a Bool is its own value and every Number, 0 included, is true.          *)
(***************************************************************************)
AtNot ==
    /\ pc = "run"
    /\ ip < Len(chunk.code)
    /\ chunk.code[ip + 1] = OpNot
    /\ Len(stack) >= 1

Truthy(v) ==
    CASE v.typ = "ValueNil" -> FALSE
      [] v.typ = "ValueBool" -> v.b
      [] v.typ = "ValueNumber" -> TRUE

C16_NotComplements ==
    [][AtNot =>
        /\ pc' = "run"
        /\ err' = NoErr
        /\ ip' = ip + 1
        /\ out' = out
        /\ stack' = Append(SubSeq(stack, 1, Len(stack) - 1),
                           boolValue(~Truthy(stack[Len(stack)])))]_vars

\* !0 has run to its end and printed false.
C16_Witness ==
    /\ source = <<"!", "0">>
    /\ pc = "done"
    /\ out = <<boolValue(FALSE)>>

(***************************************************************************)
(* C17 (tokens without a rule).  A token whose kind has no entry in the    *)
(* rule table (!= <= >= = a string, an identifier, ; { } , . and the       *)
(* keywords other than nil, true, false) makes compile fail with "unknown  *)
(* token type" naming that kind, at the lookup of its rule: when it starts *)
(* an expression it is the last token taken, when it follows a complete    *)
(* operand it is still the current token.  It never ends the expression    *)
(* the way a token of precedence None does.  No chunk is returned.         *)
(***************************************************************************)
UnknownTokenType(typ) ==
    /\ pc = "compile_error"
    /\ chunk = NilChunk
    /\ err.msg = "unknown token type: %s"
    /\ err.a = typ

C17_UnknownTokenType ==
    \A t \in UnruledTokens, rest \in UnruledFollowers :
        /\ (source = UnruledSource(<<>>, t[1], rest) /\ Ended) =>
                UnknownTokenType(t[2]) /\ previous.typ = t[2]
        /\ (source = UnruledSource(<<"1", "+">>, t[1], rest) /\ Ended) =>
                UnknownTokenType(t[2]) /\ previous.typ = t[2]
        /\ (source = UnruledSource(<<"1", " ">>, t[1], rest) /\ Ended) =>
                /\ UnknownTokenType(t[2])
                /\ current.typ = t[2]
                /\ previous.typ = "TokenNumber"

\* "1 !=" has failed at the lookup of the rule of != after the operand 1.
C17_Witness ==
    /\ source = <<"1", " ", "!", "=">>
    /\ pc = "compile_error"
    /\ err.msg = "unknown token type: %s"
    /\ err.a = "TokenBangEqual"
    /\ current.typ = "TokenBangEqual"

(***************************************************************************)
(* C18 (instruction pointer).  When run executes a compiled chunk, ip is   *)
(* at an opcode at the start of every dispatch step, never at the operand  *)
(* of a Constant (also when the operand is 13, the number of Return); the  *)
(* operand of a Constant lies inside the code; and a step that continues   *)
(* moves ip to the next opcode of the code, skipping none, so that the     *)
(* opcodes are dispatched in the order in which the compiler emitted them. *)
(***************************************************************************)
AtDispatch == pc = "run" /\ ip < Len(chunk.code)

C18_OpcodeBoundary ==
    [][AtDispatch =>
        /\ IsOpcodeAt(chunk.code, ip + 1)
        /\ chunk.code[ip + 1] = OpConstant => ip + 2 <= Len(chunk.code)
        /\ pc' = "run" =>
            /\ ip' > ip
            /\ ip' <= Len(chunk.code)
            /\ ip' < Len(chunk.code) => IsOpcodeAt(chunk.code, ip' + 1)
            /\ \A j \in (ip + 2)..ip' : ~IsOpcodeAt(chunk.code, j)]_vars

\* The VM has stepped over a Constant whose operand is 13 and goes on with
\* the opcode after it.
C18_Witness ==
    /\ AtDispatch
    /\ ip >= 2
    /\ chunk.code[ip] = OpReturn
    /\ chunk.code[ip - 1] = OpConstant
    /\ IsOpcodeAt(chunk.code, ip - 1)
    /\ Len(stack) >= 1
    /\ stack[Len(stack)] = chunk.vals[OpReturn + 1]

(***************************************************************************)
(* The expressions of a source of one-digit literals joined by "+" and     *)
(* separated by spaces, read off the source: the g-th expression is the    *)
(* sum of the digits between the (g-1)-th and the g-th space.              *)
(***************************************************************************)
SpacePlaces(src) ==
    SelectSeq([i \in 1..Len(src) |-> i], LAMBDA i : src[i] = " ")

RECURSIVE DigitSum(_)
DigitSum(bytes) ==
    IF bytes = <<>> THEN 0
    ELSE (IF Head(bytes) \in Digits THEN DigitVal(Head(bytes)) ELSE 0)
         + DigitSum(Tail(bytes))

ExprText(src, sp, g) ==
    SubSeq(src, IF g = 1 THEN 1 ELSE sp[g - 1] + 1,
                IF g = Len(sp) + 1 THEN Len(src) ELSE sp[g] - 1)

ExprValuesAt(src, sp) ==
    [g \in 1..(Len(sp) + 1) |->
        numberValue(Fin(1, DigitSum(ExprText(src, sp, g)), 1))]

ExprValues(src) == ExprValuesAt(src, SpacePlaces(src))

(***************************************************************************)
(* C19 (back-to-back expressions).  For a source of k >= 1 expressions     *)
(* that compiles and runs without error, the stack holds exactly the k     *)
(* values of the expressions, in order, when the final Return is reached   *)
(* and nothing has been printed; Return prints the value of the last       *)
(* expression only, and the values of the k-1 earlier expressions are      *)
(* still on the stack, unprinted, when run returns.                        *)
(***************************************************************************)
AtReturn == AtDispatch /\ chunk.code[ip + 1] = OpReturn

AfterReturn == pc = "done" \/ (pc = "run" /\ ip >= Len(chunk.code))

EarlierLeft(vals) ==
    /\ stack = SubSeq(vals, 1, Len(vals) - 1)
    /\ out = <<vals[Len(vals)]>>

C19_EarlierValuesLeft ==
    /\ AtReturn => stack = ExprValues(source) /\ out = <<>>
    /\ AfterReturn => EarlierLeft(ExprValues(source))

\* Two expressions or more have run: the last value is printed, it differs
\* from the first, and the first is still on the stack.
C19_Witness ==
    /\ pc = "done"
    /\ Len(stack) >= 1
    /\ Len(stack) = Len(SpacePlaces(source))
    /\ out # <<stack[1]>>
    /\ out = <<ExprValues(source)[Len(stack) + 1]>>

====
